---------------------------- MODULE Spec2Model ----------------------------
(***************************************************************************)
(* Model of avmetadata (src/src/lib.rs): Metadata::new projects a demuxer  *)
(* handle (ffmpeg::format::context::Input) into an owned, serializable     *)
(* Metadata value, or fails with the first per-stream error.               *)
(*                                                                         *)
(* Strings that the code inspects (the raw format name) are sequences of   *)
(* one-character strings; Option<T> is a sequence of length 0 (None) or    *)
(* 1 (Some); Result<T, E> is a record tagged "Ok" or "Err".  Stream        *)
(* indices are 0-based as in the code, sequence positions are 1-based.     *)
(***************************************************************************)
EXTENDS Integers, Sequences, FiniteSets, TLC

VARIABLES handle, result, calls, wire, decoded

vars == <<handle, result, calls, wire, decoded>>

---------------------------------------------------------------------------
(* Bounds of the explored inputs.                                          *)

MaxStreams == 2
MaxIndex == 1
MaxTime == 1
MaxNameLen == 3
MaxTags == 3
MaxCalls == 2

---------------------------------------------------------------------------
(* Option and Result.                                                      *)

None == <<>>

Some(v) == <<v>>

Ok(v) == [tag |-> "Ok", value |-> v]

Err(e) == [tag |-> "Err", error |-> e]

Panic == [tag |-> "Panic"]

NotCalled == [tag |-> "NotCalled"]

SeqsUpTo(S, n) == UNION {[1..k -> S] : k \in 0..n}

---------------------------------------------------------------------------
(* The collaborator's vocabulary.                                          *)

MediaTypes == {"Unknown", "Audio", "Video", "Data", "Subtitle", "Attachment"}

CodecKinds == {"Audio", "Video", "Subtitle"}

DecoderResults == {"Ok", "DecoderNotFound"}

OptTimes == {None} \cup {Some(t) : t \in 0..MaxTime}

BestAnswers == {None} \cup {Some([index |-> i]) : i \in 0..MaxIndex}

Sep == ","

Alphabet == {"a", "b", Sep}

Mp4Example == <<"m", "p", "4", ",", "m", "o", "v", ",", "m", "4", "a">>

TagKeys == {"title", "artist"}

TagValues == {"A", "B"}

---------------------------------------------------------------------------
(* str::split(","), Iterator::next, Iterator::skip, Option::unwrap.        *)

(* Mutation: split_terminator, which drops a trailing empty token.         *)
RECURSIVE SplitTerminatorFrom(_, _, _)
SplitTerminatorFrom(s, cur, acc) ==
    IF s = <<>> THEN (IF cur = <<>> THEN acc ELSE Append(acc, cur))
    ELSE IF Head(s) = Sep THEN SplitTerminatorFrom(Tail(s), <<>>, Append(acc, cur))
    ELSE SplitTerminatorFrom(Tail(s), Append(cur, Head(s)), acc)

RECURSIVE SplitFrom(_, _, _)
SplitFrom(s, cur, acc) ==
    IF s = <<>> THEN Append(acc, cur)
    ELSE IF Head(s) = Sep THEN SplitFrom(Tail(s), <<>>, Append(acc, cur))
    ELSE SplitFrom(Tail(s), Append(cur, Head(s)), acc)

Split(s) == SplitFrom(s, <<>>, <<>>)

IterNext(it) == IF it = <<>> THEN None ELSE Some(Head(it))

Skip(it, n) == IF Len(it) <= n THEN <<>> ELSE SubSeq(it, n + 1, Len(it))

---------------------------------------------------------------------------
(* Step 1 of Metadata::new: the container descriptor.                      *)

FormatOf(h, first) ==
    [name |-> first,
     aliases |-> Skip(Split(h.format.name), 1),
     description |-> h.format.description,
     extensions |-> h.format.extensions,
     mime_types |-> h.format.mime_types]

(* Step 2: input.streams().best(kind).map(|s| s.index()).                  *)

MapIndex(answer) == IF answer = None THEN None ELSE Some(answer[1].index)

BestOf(h) ==
    [video |-> MapIndex(h.best["Video"]),
     audio |-> MapIndex(h.best["Audio"]),
     subtitle |-> MapIndex(h.best["Subtitle"])]

(* Steps 3-4: the closure mapped over the streams.                         *)
(* `stream.codec().decoder().audio()?` propagates the decoder's error;     *)
(* `.codec().ok_or(ffmpeg::Error::Bug)?` turns a missing codec identity    *)
(* into Error::Bug.                                                        *)

CodecOf(s) == [id |-> s.codec[1].id,
               name |-> s.codec[1].name,
               description |-> s.codec[1].description]

DecoderView(s) ==
    IF s.decoder # "Ok" THEN Err(s.decoder)
    ELSE IF s.codec = None THEN Err("Bug")
    ELSE Ok(s)

(* Mutation: every medium goes through the decoder view.                   *)
ContentOfStrict(s) ==
    IF DecoderView(s).tag = "Err" THEN DecoderView(s)
    ELSE CASE s.medium = "Audio" ->
                 Ok([kind |-> "Audio", codec |-> CodecOf(s),
                     params |-> s.params, frame_start |-> s.frame_start])
           [] s.medium = "Video" ->
                 Ok([kind |-> "Video", codec |-> CodecOf(s), params |-> s.params])
           [] s.medium = "Subtitle" ->
                 Ok([kind |-> "Subtitle", codec |-> CodecOf(s)])
           [] OTHER -> Ok([kind |-> s.medium])

ContentOf(s) ==
    CASE s.medium = "Unknown" -> Ok([kind |-> "Unknown"])
      [] s.medium = "Audio" ->
            IF DecoderView(s).tag = "Err" THEN DecoderView(s)
            ELSE Ok([kind |-> "Audio", codec |-> CodecOf(s),
                     params |-> s.params, frame_start |-> s.frame_start])
      [] s.medium = "Video" ->
            IF DecoderView(s).tag = "Err" THEN DecoderView(s)
            ELSE Ok([kind |-> "Video", codec |-> CodecOf(s),
                     params |-> s.params])
      [] s.medium = "Data" -> Ok([kind |-> "Data"])
      [] s.medium = "Subtitle" ->
            IF DecoderView(s).tag = "Err" THEN DecoderView(s)
            ELSE Ok([kind |-> "Subtitle", codec |-> CodecOf(s)])
      [] s.medium = "Attachment" -> Ok([kind |-> "Attachment"])

ProjectStream(s) ==
    LET content == ContentOf(s) IN
    IF content.tag = "Err" THEN content
    ELSE Ok([index |-> s.index,
             generic |-> s.generic,
             start_time |-> s.start_time,
             duration |-> s.duration,
             content |-> content.value])

(* Mutation: filter_map(Result::ok), which drops the failing streams.      *)
RECURSIVE CollectSkipping(_, _)
CollectSkipping(streams, acc) ==
    IF streams = <<>> THEN Ok(acc)
    ELSE LET r == ProjectStream(Head(streams)) IN
         IF r.tag = "Err" THEN CollectSkipping(Tail(streams), acc)
         ELSE CollectSkipping(Tail(streams), Append(acc, r.value))

(* Step 5: .collect::<ffmpeg::Result<Vec<_>>>() stops at the first Err.    *)

RECURSIVE CollectFrom(_, _)
CollectFrom(streams, acc) ==
    IF streams = <<>> THEN Ok(acc)
    ELSE LET r == ProjectStream(Head(streams)) IN
         IF r.tag = "Err" THEN r
         ELSE CollectFrom(Tail(streams), Append(acc, r.value))

(* Mutation: enumerate(), with the index taken from the position.          *)
CollectEnumerated(streams) ==
    LET r == CollectFrom(streams, <<>>) IN
    IF r.tag = "Err" THEN r
    ELSE Ok([i \in 1..Len(r.value) |-> [r.value[i] EXCEPT !.index = i - 1]])

Collect(streams) == CollectFrom(streams, <<>>)

(* Step 6: the tags collected into a HashMap; insert overwrites.           *)

EmptyMap == <<>>

(* Mutation: entry(k).or_insert(v), which keeps the first value.           *)
InsertKeepFirst(m, k, v) ==
    [x \in DOMAIN m \cup {k} |-> IF x \in DOMAIN m THEN m[x] ELSE v]

Insert(m, k, v) == [x \in DOMAIN m \cup {k} |-> IF x = k THEN v ELSE m[x]]

RECURSIVE CollectMapFrom(_, _)
CollectMapFrom(tags, m) ==
    IF tags = <<>> THEN m
    ELSE CollectMapFrom(Tail(tags), Insert(m, Head(tags)[1], Head(tags)[2]))

CollectMap(tags) == CollectMapFrom(tags, EmptyMap)

(* Mutation: every stream is projected and the last error is reported.    *)
RECURSIVE LastError(_, _)
LastError(streams, found) ==
    IF streams = <<>> THEN found
    ELSE LET r == ProjectStream(Head(streams)) IN
         LastError(Tail(streams), IF r.tag = "Err" THEN r ELSE found)

ProjectLastError(h) ==
    LET first == IterNext(Split(h.format.name)) IN
    IF first = None THEN Panic
    ELSE LET streams == Collect(h.streams) IN
         IF streams.tag = "Err" THEN LastError(h.streams, streams)
         ELSE Ok([format |-> FormatOf(h, first[1]),
                  best |-> BestOf(h),
                  streams |-> streams.value,
                  details |-> CollectMap(h.tags)])

(* Metadata::new.  `.next().unwrap()` panics on None.                      *)

Project(h) ==
    LET first == IterNext(Split(h.format.name)) IN
    IF first = None THEN Panic
    ELSE LET streams == Collect(h.streams) IN
         IF streams.tag = "Err" THEN streams
         ELSE Ok([format |-> FormatOf(h, first[1]),
                  best |-> BestOf(h),
                  streams |-> streams.value,
                  details |-> CollectMap(h.tags)])

(* Mutation: `input: Input` by value, whose streams are drained.           *)
Consumed(h) == [h EXCEPT !.streams = <<>>]

(* `input: &Input` is a shared borrow: the caller's handle after the call. *)

Borrowed(h) == h

---------------------------------------------------------------------------
(* #[derive(Serialize, Deserialize)]: the derived implementations map a    *)
(* value to the serde data model and back.  Option is none / some(v), a    *)
(* Content is a newtype variant named by #[serde(rename_all =              *)
(* "kebab-case")], `Unknown` is a unit struct, `Data {}` and               *)
(* `Attachment {}` are structs without fields.                             *)

KebabCase(kind) ==
    CASE kind = "Unknown" -> "unknown"
      [] kind = "Audio" -> "audio"
      [] kind = "Video" -> "video"
      [] kind = "Data" -> "data"
      [] kind = "Subtitle" -> "subtitle"
      [] kind = "Attachment" -> "attachment"

(* Mutation: an absent value written as the sentinel -1.                   *)
SerOptionSentinel(o) ==
    IF o = None THEN [t |-> "some", v |-> -1] ELSE [t |-> "some", v |-> o[1]]

SerOption(o) == IF o = None THEN [t |-> "none"] ELSE [t |-> "some", v |-> o[1]]

DeOption(w) == IF w.t = "none" THEN None ELSE Some(w.v)

UnitStruct == [t |-> "unit_struct"]

EmptyStruct == [t |-> "struct"]

SerPayload(c) ==
    CASE c.kind = "Unknown" -> UnitStruct
      [] c.kind = "Audio" -> [codec |-> c.codec, params |-> c.params,
                              frame_start |-> SerOption(c.frame_start)]
      [] c.kind = "Video" -> [codec |-> c.codec, params |-> c.params]
      [] c.kind = "Data" -> EmptyStruct
      [] c.kind = "Subtitle" -> [codec |-> c.codec]
      [] c.kind = "Attachment" -> EmptyStruct

SerContent(c) == [variant |-> KebabCase(c.kind), value |-> SerPayload(c)]

DePayload(kind, w) ==
    CASE kind = "Unknown" -> [kind |-> kind]
      [] kind = "Audio" -> [kind |-> kind, codec |-> w.codec, params |-> w.params,
                            frame_start |-> DeOption(w.frame_start)]
      [] kind = "Video" -> [kind |-> kind, codec |-> w.codec, params |-> w.params]
      [] kind = "Data" -> [kind |-> kind]
      [] kind = "Subtitle" -> [kind |-> kind, codec |-> w.codec]
      [] kind = "Attachment" -> [kind |-> kind]

DeContent(w) ==
    IF \E k \in MediaTypes : KebabCase(k) = w.variant
    THEN Ok(DePayload(CHOOSE k \in MediaTypes : KebabCase(k) = w.variant, w.value))
    ELSE Err("unknown variant")

SerStream(st) ==
    [index |-> st.index,
     generic |-> st.generic,
     start_time |-> SerOption(st.start_time),
     duration |-> SerOption(st.duration),
     content |-> SerContent(st.content)]

DeStream(w) ==
    LET content == DeContent(w.content) IN
    IF content.tag = "Err" THEN content
    ELSE Ok([index |-> w.index,
             generic |-> w.generic,
             start_time |-> DeOption(w.start_time),
             duration |-> DeOption(w.duration),
             content |-> content.value])

SerBest(b) == [audio |-> SerOption(b.audio),
               video |-> SerOption(b.video),
               subtitle |-> SerOption(b.subtitle)]

DeBest(w) == [audio |-> DeOption(w.audio),
              video |-> DeOption(w.video),
              subtitle |-> DeOption(w.subtitle)]

Serialize(m) ==
    [format |-> m.format,
     best |-> SerBest(m.best),
     streams |-> [i \in 1..Len(m.streams) |-> SerStream(m.streams[i])],
     details |-> m.details]

RECURSIVE DeStreamsFrom(_, _)
DeStreamsFrom(ws, acc) ==
    IF ws = <<>> THEN Ok(acc)
    ELSE LET r == DeStream(Head(ws)) IN
         IF r.tag = "Err" THEN r
         ELSE DeStreamsFrom(Tail(ws), Append(acc, r.value))

Deserialize(w) ==
    LET streams == DeStreamsFrom(w.streams, <<>>) IN
    IF streams.tag = "Err" THEN streams
    ELSE Ok([format |-> w.format,
             best |-> DeBest(w.best),
             streams |-> streams.value,
             details |-> w.details])

---------------------------------------------------------------------------
(* The handles the collaborator can hand to Metadata::new.                 *)

DefaultFormat == [name |-> <<"a", Sep, "b">>,
                  description |-> "descr",
                  extensions |-> <<"ext">>,
                  mime_types |-> <<"mime">>]

CodecId == [id |-> "id", name |-> "codec", description |-> "codec descr"]

NoBest == [k \in CodecKinds |-> None]

StreamHandle(index, medium, decoder, codec, start, dur, fstart) ==
    [index |-> index, medium |-> medium, decoder |-> decoder, codec |-> codec,
     generic |-> "generic", params |-> "params",
     start_time |-> start, duration |-> dur, frame_start |-> fstart]

(* Streams as the demuxer numbers them (index = position), each with any   *)
(* medium and any outcome of decoder and codec resolution.                 *)
ResolutionStreams ==
    UNION {[1..n -> [medium : MediaTypes, decoder : DecoderResults,
                     codec : {None, Some(CodecId)}]] : n \in 0..MaxStreams}

ResolutionHandles ==
    {[format |-> DefaultFormat,
      best |-> NoBest,
      streams |-> [i \in 1..Len(ss) |->
                      StreamHandle(i - 1, ss[i].medium, ss[i].decoder,
                                   ss[i].codec, None, None, None)],
      tags |-> <<>>] : ss \in ResolutionStreams}

(* The best-stream answers: any answer for one kind, or one answer for all *)
(* three kinds.                                                            *)
BestFunctions ==
    {[NoBest EXCEPT ![k] = a] : k \in CodecKinds, a \in BestAnswers}
        \cup {[k \in CodecKinds |-> a] : a \in BestAnswers}

(* Resolvable streams that report any index (audio, video, subtitle or     *)
(* data), with any of the best-stream answers.                             *)
IndexStreams ==
    SeqsUpTo([index : 0..MaxIndex, medium : CodecKinds \cup {"Data"}], MaxStreams)

IndexHandles ==
    {[format |-> DefaultFormat,
      best |-> b,
      streams |-> [i \in 1..Len(ss) |->
                      StreamHandle(ss[i].index, ss[i].medium, "Ok",
                                   Some(CodecId), None, None, None)],
      tags |-> <<>>] : ss \in IndexStreams, b \in BestFunctions}

(* One stream with any presence of the optional fields.                    *)
OptionalHandles ==
    {[format |-> DefaultFormat,
      best |-> [NoBest EXCEPT ![m] = b],
      streams |-> <<StreamHandle(0, m, "Ok", Some(CodecId), st, du, fs)>>,
      tags |-> <<<<"title", "A">>>>] :
        m \in MediaTypes, st \in OptTimes, du \in OptTimes, fs \in OptTimes,
        b \in {None, Some([index |-> 0])}}

(* Any raw format name, with and without a failing stream.                 *)
NameHandles ==
    {[format |-> [DefaultFormat EXCEPT !.name = n],
      best |-> NoBest,
      streams |-> ss,
      tags |-> <<>>] :
        n \in SeqsUpTo(Alphabet, MaxNameLen) \cup {Mp4Example},
        ss \in {<<>>, <<StreamHandle(0, "Audio", "Ok", None, None, None, None)>>}}

(* Any sequence of container tags.                                         *)
TagHandles ==
    {[format |-> DefaultFormat,
      best |-> NoBest,
      streams |-> <<>>,
      tags |-> t] : t \in SeqsUpTo(TagKeys \X TagValues, MaxTags)}

Handles == ResolutionHandles \cup IndexHandles \cup OptionalHandles
             \cup NameHandles \cup TagHandles

---------------------------------------------------------------------------
(* The state machine: a caller holds a handle, calls Metadata::new on it,  *)
(* serializes a returned Metadata and deserializes the serialized form.    *)

NoWire == [t |-> "nothing"]

Init ==
    /\ handle \in Handles
    /\ result = NotCalled
    /\ calls = 0
    /\ wire = NoWire
    /\ decoded = NotCalled

New ==
    /\ calls < MaxCalls
    /\ result' = Project(handle)
    /\ handle' = Borrowed(handle)
    /\ calls' = calls + 1
    /\ UNCHANGED <<wire, decoded>>

Ser ==
    /\ result.tag = "Ok"
    /\ wire = NoWire
    /\ wire' = Serialize(result.value)
    /\ UNCHANGED <<handle, result, calls, decoded>>

De ==
    /\ wire # NoWire
    /\ decoded = NotCalled
    /\ decoded' = Deserialize(wire)
    /\ UNCHANGED <<handle, result, calls, wire>>

Next == New \/ Ser \/ De

Spec == Init /\ [][Next]_vars

---------------------------------------------------------------------------
(* Vocabulary of the properties.                                           *)

Called == calls > 0

Positions == 1..Len(handle.streams)

(* Stream s needs a decoder view and codec identity and cannot get them.   *)
Fails(s) == s.medium \in CodecKinds /\ (s.decoder # "Ok" \/ s.codec = None)

ErrorOfStream(s) == IF s.decoder # "Ok" THEN s.decoder ELSE "Bug"

FirstFailing == CHOOSE i \in Positions :
                    Fails(handle.streams[i])
                    /\ \A j \in 1..(i - 1) : ~Fails(handle.streams[j])

RECURSIVE Join(_)
Join(tokens) ==
    IF Len(tokens) = 1 THEN tokens[1]
    ELSE tokens[1] \o <<Sep>> \o Join(Tail(tokens))

HasSep(token) == \E i \in 1..Len(token) : token[i] = Sep

LastOccurrence(k) == CHOOSE i \in 1..Len(handle.tags) :
                        handle.tags[i][1] = k
                        /\ \A j \in (i + 1)..Len(handle.tags) : handle.tags[j][1] # k

BestField(b, kind) ==
    CASE kind = "Video" -> b.video
      [] kind = "Audio" -> b.audio
      [] kind = "Subtitle" -> b.subtitle

---------------------------------------------------------------------------
(* C1: all-or-nothing projection.  If any audio, video or subtitle stream  *)
(* of the handle fails decoder-view or codec-identity resolution, the call *)
(* returns an error that carries no Snapshot, whatever the other streams   *)
(* do; and a returned Snapshot never has fewer streams than the handle.    *)
C1_AllOrNothing ==
    Called =>
        /\ (\E i \in Positions : Fails(handle.streams[i]))
              => (result.tag = "Err" /\ DOMAIN result = {"tag", "error"})
        /\ result.tag = "Ok" => Len(result.value.streams) = Len(handle.streams)

C1_Witness ==
    /\ Called
    /\ Len(handle.streams) = 2
    /\ handle.streams[1].medium = "Video" /\ ~Fails(handle.streams[1])
    /\ Fails(handle.streams[2])
    /\ result.tag = "Err"

(* C2: a successful call returns exactly as many streams as the handle     *)
(* enumerates, in the same order, and each element's index is the index    *)
(* the handle's stream reports, not its position; its content is of the    *)
(* kind of that stream.                                                    *)
C2_StreamsVerbatim ==
    result.tag = "Ok" =>
        /\ Len(result.value.streams) = Len(handle.streams)
        /\ \A i \in Positions :
              /\ result.value.streams[i].index = handle.streams[i].index
              /\ result.value.streams[i].content.kind = handle.streams[i].medium

C2_Witness ==
    /\ result.tag = "Ok"
    /\ Len(result.value.streams) = 2
    /\ handle.streams[1].index = 1
    /\ handle.streams[2].index = 0
    /\ result.value.streams[1].index = 1

(* C3: in every returned Snapshot each present best index refers to an     *)
(* existing element of streams whose content is of the matching kind, for  *)
(* every answer of the collaborator's bestStream.                          *)
C3_BestRefersToStream ==
    result.tag = "Ok" =>
        \A kind \in CodecKinds :
            LET b == BestField(result.value.best, kind) IN
            b # None =>
                /\ b[1] + 1 \in 1..Len(result.value.streams)
                /\ result.value.streams[b[1] + 1].content.kind = kind

(* C4: when bestStream answers a stream whose index is the index of no     *)
(* enumerated stream, the call fails with InvariantViolation.              *)
C4_InvalidBestRejected ==
    (/\ Called
     /\ \E kind \in CodecKinds :
           /\ handle.best[kind] # None
           /\ \A i \in Positions :
                 handle.streams[i].index # handle.best[kind][1].index)
        => result = Err("InvariantViolation")

(* C5: a stream of kind unknown, data or attachment projects to the empty  *)
(* content of the same name and never makes the call fail, whether or not  *)
(* its decoder view or codec identity resolves.                            *)
C5_EmptyKindsNeverFail ==
    Called =>
        /\ result.tag = "Err" => \E i \in Positions : Fails(handle.streams[i])
        /\ result.tag = "Ok" =>
              \A i \in Positions :
                  handle.streams[i].medium \notin CodecKinds =>
                      result.value.streams[i].content
                          = [kind |-> handle.streams[i].medium]

C5_Witness ==
    /\ result.tag = "Ok"
    /\ Len(handle.streams) = 2
    /\ handle.streams[1].medium = "Data" /\ handle.streams[1].decoder # "Ok"
    /\ handle.streams[2].medium = "Unknown" /\ handle.streams[2].codec = None
    /\ result.value.streams[1].content = [kind |-> "Data"]

(* C6: name is the first comma-separated token of the raw name and aliases *)
(* the remaining tokens in order: no token holds a comma and joining name  *)
(* and aliases with commas gives back the raw string.                      *)
C6_NameSplit ==
    result.tag = "Ok" =>
        LET f == result.value.format
            tokens == <<f.name>> \o f.aliases IN
        /\ Join(tokens) = handle.format.name
        /\ \A i \in 1..Len(tokens) : ~HasSep(tokens[i])
        /\ ~HasSep(handle.format.name) => f.aliases = <<>>
        /\ handle.format.name = Mp4Example =>
              /\ f.name = <<"m", "p", "4">>
              /\ f.aliases = << <<"m", "o", "v">>, <<"m", "4", "a">> >>

C6_Witness ==
    /\ result.tag = "Ok"
    /\ handle.format.name = Mp4Example
    /\ Len(result.value.format.aliases) = 2

(* C7: details has exactly the distinct keys of the tag sequence and each  *)
(* key maps to the value of its last occurrence.                           *)
C7_DetailsLastWins ==
    result.tag = "Ok" =>
        /\ DOMAIN result.value.details
              = {handle.tags[i][1] : i \in 1..Len(handle.tags)}
        /\ \A k \in DOMAIN result.value.details :
              result.value.details[k] = handle.tags[LastOccurrence(k)][2]

C7_Witness ==
    /\ result.tag = "Ok"
    /\ handle.tags = << <<"title", "A">>, <<"title", "B">> >>
    /\ result.value.details["title"] = "B"

C10_OnlyStreamsFail ==
    Called =>
        /\ result.tag # "Panic"
        /\ (\A i \in Positions : ~Fails(handle.streams[i])) => result.tag = "Ok"
        /\ (\E i \in Positions : Fails(handle.streams[i]))
              => result = Err(ErrorOfStream(handle.streams[FirstFailing]))
        /\ (result.tag = "Ok" /\ handle.format.name = <<>>)
              => (result.value.format.name = <<>>
                  /\ result.value.format.aliases = <<>>)

C10_Witness ==
    /\ Called
    /\ Len(handle.streams) = 2
    /\ Fails(handle.streams[1]) /\ Fails(handle.streams[2])
    /\ ErrorOfStream(handle.streams[1]) = "Bug"
    /\ ErrorOfStream(handle.streams[2]) = "DecoderNotFound"
    /\ result = Err("Bug")

=============================================================================
